---- MODULE Spec2Model ----
(***************************************************************************)
(* Model of the webhook listener of the stream notification bot            *)
(* (src/main.py, src/database.py, src/config.py).                          *)
(*                                                                         *)
(* The Flask routes GET /, POST /webhooks/twitch and GET|POST              *)
(* /webhooks/youtube are modelled as one action each.  The registry        *)
(* (StreamDatabase.data), the Discord channel cache (bot.get_channel) and  *)
(* the tasks scheduled on the bot loop (bot.loop.create_task) are the      *)
(* program state; `last` is a history variable recording what the most    *)
(* recent request was, what it did and how often it was delivered and     *)
(* dispatched in a row.                                                    *)
(*                                                                         *)
(* A second specification, SpecSteps, runs a handler in the steps of the   *)
(* HTTP thread (until it blocks in requests.get, until it returns) beside  *)
(* the bot loop that runs the scheduled sends; `pc` and `cur` are the      *)
(* position and the locals of the handler in flight, `sink` counts the     *)
(* sends scheduled, succeeded and failed.                                  *)
(*                                                                         *)
(* A third specification, SpecCommands, runs the slash commands /add and   *)
(* /remove and the start-up handler on_ready on the bot loop; `provider`   *)
(* is the set of EventSub subscriptions that are live at Twitch and `cmd`  *)
(* a history variable recording the most recent command and what it did.   *)
(* A fourth, SpecRace, runs /remove beside the handler steps of SpecSteps. *)
(*                                                                         *)
(* Strings that the code concatenates (the Twitch message id and           *)
(* timestamp) are sequences of characters; the request body is one token   *)
(* (its raw bytes) that get_json / xmltodict.parse map to a parsed value.  *)
(* HMAC-SHA256 is the symbolic (collision free) keyed digest of its        *)
(* message.                                                                *)
(*                                                                         *)
(* Lines 625-653 of src/main.py repeat the end of youtube_webhook after    *)
(* its last return statement; the handler modelled is lines 574-624.       *)
(***************************************************************************)
EXTENDS Integers, Sequences, FiniteSets, TLC

VARIABLES data, channels, tasks, last, pc, cur, sink, provider, cmd

vars == <<data, channels, tasks, last, pc, cur, sink, provider, cmd>>

\* ------------------------------------------------------------------ bounds

\* longest Twitch-Eventsub-Message-Id / -Timestamp header value
MaxHdrLen == 2
\* most tasks waiting on the bot loop at one time
MaxTasks == 1
\* most deliveries in a row of one and the same request
MaxDeliveries == 2
\* most sends ever scheduled while the handler runs in steps
MaxSends == 2

\* ------------------------------------------------------------ basic values

\* Python's None, and a missing dict key / header / query parameter
None == "None"

\* the one character header values are made of
Chars == {"a"}

\* a header that the request does not carry
NoHeader == <<"<missing>">>

\* strings over Chars of length 1..MaxHdrLen (a present, non-empty header)
HdrStrings == UNION {[1..n -> Chars] : n \in 1..MaxHdrLen}

HdrValues == {NoHeader} \cup HdrStrings

\* the message id and timestamp of the deliveries the provider really made
GenuineId == <<"a">>
GenuineTs == <<"a">>

\* config.WEBHOOK_SECRET, and a key that is not the secret
WEBHOOK_SECRET == "secret"
OtherKey == "otherkey"

\* external ids (Twitch user ids / YouTube channel ids), Discord channel ids
Ids == {"u1", "u2"}
ChannelIds == {10, 11}
GuildIds == {1}

\* ------------------------------------------------------- request contents

\* A signature header value is a string: its prefix, its hex part and whether
\* all its characters are ASCII.
SigString(prefix, hex, ascii) == [prefix |-> prefix, hex |-> hex, ascii |-> ascii]

\* the request carries no Twitch-Eventsub-Message-Signature header
NoSigHeader == SigString("<missing>", <<>>, TRUE)

\* the empty string ''
EmptySig == SigString("", <<>>, TRUE)

\* hmac.new(key, msg, hashlib.sha256).hexdigest(): the keyed digest of msg
HmacSha256Hex(key, msg) == <<key>> \o msg

\* request bodies of POST /webhooks/twitch (raw bytes, one token each)
TwitchBodies ==
  { "not json", "{}", "5", "{challenge:abc123}", "{other:1}",
    "{event:x}", "{event:{}}",
    "{event:{id:u1,name:n1}}", "{event:{id:u2,name:n2}}",
    "{event:{id:u1}}", "{event:{name:n1}}" }

\* a parsed JSON value, as far as the handler looks at it
Json(kind, challenge, event, uid, uname) ==
  [kind |-> kind, challenge |-> challenge, event |-> event,
   broadcaster_user_id |-> uid, broadcaster_user_name |-> uname]

\* request.get_json(): kind "invalid" is a body Flask cannot parse (it aborts
\* the request with 400), "empty" a falsy value, "number" a truthy value that
\* is no container, "object" a non-empty JSON object.  event is "object",
\* "string" (the member is no object) or None (no such member).
get_json(body) ==
  CASE body = "not json"                -> Json("invalid", None, None, None, None)
    [] body = "{}"                      -> Json("empty", None, None, None, None)
    [] body = "5"                       -> Json("number", None, None, None, None)
    [] body = "{challenge:abc123}"      -> Json("object", "abc123", None, None, None)
    [] body = "{other:1}"               -> Json("object", None, None, None, None)
    [] body = "{event:x}"               -> Json("object", None, "string", None, None)
    [] body = "{event:{}}"              -> Json("object", None, "object", None, None)
    [] body = "{event:{id:u1,name:n1}}" -> Json("object", None, "object", "u1", "n1")
    [] body = "{event:{id:u2,name:n2}}" -> Json("object", None, "object", "u2", "n2")
    [] body = "{event:{id:u1}}"         -> Json("object", None, "object", "u1", None)
    [] body = "{event:{name:n1}}"       -> Json("object", None, "object", None, "n1")

\* a request: the headers, body and query parameter the handlers read
Request(route, method, id, ts, sig, type, body, challenge) ==
  [route |-> route, method |-> method, id |-> id, ts |-> ts, sig |-> sig,
   type |-> type, data |-> body, challenge |-> challenge]

TwitchRequest(id, ts, sig, type, body) ==
  Request("/webhooks/twitch", "POST", id, ts, sig, type, body, None)

\* no request has been handled yet
NoRequest ==
  Request(None, None, NoHeader, NoHeader, SigString("<missing>", <<>>, TRUE),
          None, None, None)

\* request.headers.get(name, default)
HeaderGet(h, default) == IF h = NoHeader THEN default ELSE h

\* the bytes the signature is computed over, and the signature the code expects
hmac_message(req) ==
  HeaderGet(req.id, <<>>) \o HeaderGet(req.ts, <<>>) \o <<req.data>>

expected_signature(req) ==
  SigString("sha256=", HmacSha256Hex(WEBHOOK_SECRET, hmac_message(req)), TRUE)

\* hmac.compare_digest(a, b) on two str: TypeError unless both are ASCII
compare_digest(a, b) ==
  IF ~a.ascii \/ ~b.ascii THEN "TypeError"
  ELSE IF a = b THEN "True" ELSE "False"

\* ------------------------------------------------ registry, channels, tasks

\* a record of StreamDatabase.data
Subscription(platform, guild_id, channel_id, name, subscription_id, custom_message) ==
  [platform |-> platform, guild_id |-> guild_id, channel_id |-> channel_id,
   name |-> name, subscription_id |-> subscription_id,
   custom_message |-> custom_message]

\* what dict.get returns for a key that is not there (Python's None)
NoSub == Subscription(None, 0, 0, None, None, None)

\* get_subscription that returns some record when the key is not there
get_subscription_any(db, streamer_id) ==
  IF streamer_id \in DOMAIN db THEN db[streamer_id]
  ELSE IF DOMAIN db # {} THEN db[CHOOSE k \in DOMAIN db : TRUE]
  ELSE NoSub

\* StreamDatabase.get_subscription: self.data.get(streamer_id)
get_subscription(db, streamer_id) ==
  IF streamer_id \in DOMAIN db THEN db[streamer_id] ELSE NoSub

\* subscription_matches without the comparison of the platform
subscription_matches_any(subscription, platform) ==
  subscription # NoSub

\* the test `subscription and subscription['platform'] == platform`
subscription_matches(subscription, platform) ==
  subscription # NoSub /\ subscription.platform = platform

\* bot.get_channel(channel_id): the kind of the cached channel, or None
get_channel(chans, channel_id) ==
  IF channel_id \in DOMAIN chans THEN chans[channel_id] ELSE None

\* can_send without the test of the channel
can_send_unchecked(channel) == TRUE

\* the test `channel and hasattr(channel, 'send')`
can_send(channel) == channel # None /\ channel = "text"

\* the coroutine channel.send(content=custom_msg, embed=embed) handed to
\* bot.loop.create_task, with the parts of the embed that vary
Task(channel_id, content, platform, who, headline, game, link) ==
  [channel |-> channel_id, content |-> content, platform |-> platform,
   who |-> who, headline |-> headline, game |-> game, link |-> link]

\* what a handler run did: the HTTP response, the number of registry reads
\* and stream-details calls, and the tasks it scheduled
Result(status, body, lookups, enrich, sends) ==
  [status |-> status, body |-> body, lookups |-> lookups, enrich |-> enrich,
   sends |-> sends]

\* ------------------------------------------------------ POST /webhooks/twitch

\* the outcomes of requests.get(stream_details_url): an exception (timeout,
\* connection error, non-2xx status, body that is no JSON object), an empty
\* data list, a stream record, a stream record without a title
EnrichOutcomes == {"error", "offline", "live", "untitled"}

\* game_name and stream_title after the try block
stream_details(enr) ==
  CASE enr = "live"     -> [game_name |-> "Some Game", stream_title |-> "Some Title"]
    [] enr = "untitled" -> [game_name |-> "Some Game", stream_title |-> "No Title"]
    [] OTHER            -> [game_name |-> "No Category", stream_title |-> "Stream is Live!"]

\* Step 0: "pass", or the status the request is aborted with
verify_signature(req) ==
  LET message_signature ==
        IF req.sig = NoSigHeader THEN EmptySig ELSE req.sig
      cmp == compare_digest(expected_signature(req), message_signature)
  IN  CASE cmp = "TypeError" -> 500
        [] cmp = "False"     -> 403
        [] OTHER             -> 0

\* twitch_challenge that acknowledges instead of echoing the challenge
twitch_challenge_ack(json_data) ==
  CASE json_data.kind = "invalid" -> Result(400, "Bad Request", 0, 0, <<>>)
    [] json_data.kind = "number"  -> Result(500, "Internal Server Error", 0, 0, <<>>)
    [] OTHER                      -> Result(200, "OK", 0, 0, <<>>)

\* Step 1: the verification challenge
twitch_challenge(json_data) ==
  CASE json_data.kind = "invalid" -> Result(400, "Bad Request", 0, 0, <<>>)
    [] json_data.kind = "number"  -> Result(500, "Internal Server Error", 0, 0, <<>>)
    [] json_data.kind = "object" /\ json_data.challenge # None
                                  -> Result(200, json_data.challenge, 0, 0, <<>>)
    [] OTHER                      -> Result(200, "OK", 0, 0, <<>>)

\* twitch_dispatch that addresses the send to the guild of the subscription
twitch_dispatch_to_guild(subscription, event, user_id, chans, enr) ==
  LET details == stream_details(enr)
      channel == get_channel(chans, subscription.channel_id)
  IN  IF can_send(channel)
      THEN IF event.broadcaster_user_name = None
           THEN Result(500, "Internal Server Error", 1, 1, <<>>)
           ELSE Result(200, "OK", 1, 1,
                  << Task(subscription.guild_id, subscription.custom_message,
                          "twitch", event.broadcaster_user_name,
                          details.stream_title, details.game_name,
                          event.broadcaster_user_name) >>)
      ELSE Result(200, "OK", 1, 1, <<>>)

\* Step 2a and the send: the body of `if subscription and ...`
twitch_dispatch(subscription, event, user_id, chans, enr) ==
  LET details == stream_details(enr)
      channel_id == subscription.channel_id
      channel == get_channel(chans, channel_id)
  IN  IF can_send(channel)
      THEN IF event.broadcaster_user_name = None
           THEN Result(500, "Internal Server Error", 1, 1, <<>>)
           ELSE Result(200, "OK", 1, 1,
                  << Task(channel_id, subscription.custom_message, "twitch",
                          event.broadcaster_user_name, details.stream_title,
                          details.game_name, event.broadcaster_user_name) >>)
      ELSE Result(200, "OK", 1, 1, <<>>)

\* twitch_notification that fetches the stream details before it looks at the
\* subscription
twitch_notification_eager(json_data, db, chans, enr) ==
  CASE json_data.kind = "invalid" -> Result(400, "Bad Request", 0, 0, <<>>)
    [] json_data.kind = "number"  -> Result(500, "Internal Server Error", 0, 0, <<>>)
    [] json_data.kind = "empty" \/ json_data.event = None
                                  -> Result(200, "OK", 0, 0, <<>>)
    [] json_data.event = "string" -> Result(500, "Internal Server Error", 0, 0, <<>>)
    [] json_data.broadcaster_user_id = None
                                  -> Result(500, "Internal Server Error", 0, 0, <<>>)
    [] OTHER ->
         LET user_id == json_data.broadcaster_user_id
             subscription == get_subscription(db, user_id)
         IN  IF subscription_matches(subscription, "twitch")
             THEN twitch_dispatch(subscription, json_data, user_id, chans, enr)
             ELSE Result(200, "OK", 1, 1, <<>>)

\* Step 2: a "go live" notification
twitch_notification(json_data, db, chans, enr) ==
  CASE json_data.kind = "invalid" -> Result(400, "Bad Request", 0, 0, <<>>)
    [] json_data.kind = "number"  -> Result(500, "Internal Server Error", 0, 0, <<>>)
    [] json_data.kind = "empty" \/ json_data.event = None
                                  -> Result(200, "OK", 0, 0, <<>>)
    [] json_data.event = "string" -> Result(500, "Internal Server Error", 0, 0, <<>>)
    [] json_data.broadcaster_user_id = None
                                  -> Result(500, "Internal Server Error", 0, 0, <<>>)
    [] OTHER ->
         LET user_id == json_data.broadcaster_user_id
             subscription == get_subscription(db, user_id)
         IN  IF subscription_matches(subscription, "twitch")
             THEN twitch_dispatch(subscription, json_data, user_id, chans, enr)
             ELSE Result(200, "OK", 1, 0, <<>>)

twitch_webhook(req, db, chans, enr) ==
  LET verdict == verify_signature(req)
  IN  CASE verdict = 403 -> Result(403, "Forbidden", 0, 0, <<>>)
        [] verdict = 500 -> Result(500, "Internal Server Error", 0, 0, <<>>)
        [] req.type = "webhook_callback_verification"
                         -> twitch_challenge(get_json(req.data))
        [] req.type = "notification"
                         -> twitch_notification(get_json(req.data), db, chans, enr)
        [] OTHER         -> Result(200, "OK", 0, 0, <<>>)

\* ------------------------------------------------- GET|POST /webhooks/youtube

\* request bodies of POST /webhooks/youtube
YoutubeBodies ==
  { "not xml", "<x/>", "<feed/>", "<feed><entry/></feed>",
    "<feed>2 entries</feed>", "<feed>no entry</feed>",
    "entry()", "entry(v1)", "entry(u1)",
    "entry(v1,u1,T)", "entry(v1,u1)", "entry(v1,u2,T)" }

\* a parsed Atom document, as far as the handler looks at it
Xml(kind, entry, videoId, channelId, title) ==
  [kind |-> kind, entry |-> entry, videoId |-> videoId,
   channelId |-> channelId, title |-> title]

\* xmltodict.parse(request.data): kind "invalid" raises, "nofeed" has another
\* root element, "emptyfeed" maps feed to None, "feed" maps it to a dict;
\* entry is None (no such element), "null" (an empty element), "list"
\* (several entries) or "object"
xmltodict_parse(body) ==
  CASE body = "not xml"               -> Xml("invalid", None, None, None, None)
    [] body = "<x/>"                  -> Xml("nofeed", None, None, None, None)
    [] body = "<feed/>"               -> Xml("emptyfeed", None, None, None, None)
    [] body = "<feed><entry/></feed>" -> Xml("feed", "null", None, None, None)
    [] body = "<feed>2 entries</feed>" -> Xml("feed", "list", None, None, None)
    [] body = "<feed>no entry</feed>" -> Xml("feed", None, None, None, None)
    [] body = "entry()"               -> Xml("feed", "object", None, None, None)
    [] body = "entry(v1)"             -> Xml("feed", "object", "v1", None, None)
    [] body = "entry(u1)"             -> Xml("feed", "object", None, "u1", None)
    [] body = "entry(v1,u1,T)"        -> Xml("feed", "object", "v1", "u1", "T")
    [] body = "entry(v1,u1)"          -> Xml("feed", "object", "v1", "u1", None)
    [] body = "entry(v1,u2,T)"        -> Xml("feed", "object", "v1", "u2", "T")

YoutubeRequest(method, body, challenge) ==
  Request("/webhooks/youtube", method, NoHeader, NoHeader, NoSigHeader, None,
          body, challenge)

\* youtube_ids_missing that asks for both identifiers to be missing
youtube_ids_both_missing(video_id, channel_id) ==
  video_id = None /\ channel_id = None

\* the test `not video_id or not channel_id`
youtube_ids_missing(video_id, channel_id) ==
  video_id = None \/ channel_id = None

\* the body of `if subscription and subscription['platform'] == 'youtube'`
youtube_dispatch(subscription, entry, chans) ==
  LET channel == get_channel(chans, subscription.channel_id)
      video_title == IF entry.title = None THEN "New Video" ELSE entry.title
  IN  IF can_send(channel)
      THEN Result(200, "OK", 1, 0,
             << Task(subscription.channel_id, subscription.custom_message,
                     "youtube", subscription.name, video_title, None,
                     entry.videoId) >>)
      ELSE Result(200, "OK", 1, 0, <<>>)

\* youtube_notification without the except clause: what the try block raises
\* ends the request with 500
youtube_notification_uncaught(xml_data, db, chans) ==
  CASE xml_data.kind = "invalid"   -> Result(500, "Internal Server Error", 0, 0, <<>>)
    [] xml_data.kind = "emptyfeed" -> Result(500, "Internal Server Error", 0, 0, <<>>)
    [] xml_data.entry \in {"null", "list"}
                                   -> Result(500, "Internal Server Error", 0, 0, <<>>)
    [] youtube_ids_missing(xml_data.videoId, xml_data.channelId)
                                   -> Result(200, "OK", 0, 0, <<>>)
    [] OTHER ->
         LET subscription == get_subscription(db, xml_data.channelId)
         IN  IF subscription_matches(subscription, "youtube")
             THEN youtube_dispatch(subscription, xml_data, chans)
             ELSE Result(200, "OK", 1, 0, <<>>)

\* the POST branch: the try block and its except clause
youtube_notification(xml_data, db, chans) ==
  CASE xml_data.kind = "invalid"   -> Result(200, "OK", 0, 0, <<>>)
    [] xml_data.kind = "emptyfeed" -> Result(200, "OK", 0, 0, <<>>)
    [] xml_data.entry \in {"null", "list"}
                                   -> Result(200, "OK", 0, 0, <<>>)
    [] youtube_ids_missing(xml_data.videoId, xml_data.channelId)
                                   -> Result(200, "OK", 0, 0, <<>>)
    [] OTHER ->
         LET subscription == get_subscription(db, xml_data.channelId)
         IN  IF subscription_matches(subscription, "youtube")
             THEN youtube_dispatch(subscription, xml_data, chans)
             ELSE Result(200, "OK", 1, 0, <<>>)

youtube_webhook(req, db, chans) ==
  IF req.method = "GET"
  THEN IF req.challenge # None /\ req.challenge # ""
       THEN Result(200, req.challenge, 0, 0, <<>>)
       ELSE Result(200, "OK", 0, 0, <<>>)
  ELSE youtube_notification(xmltodict_parse(req.data), db, chans)

\* GET /
home == Result(200, "Stream Notification Bot - Webhook Listener is running.",
               0, 0, <<>>)

\* ------------------------------------------------------------------ inputs

\* the signature the provider computes for a delivery of `body`
GenuineSig(body) ==
  SigString("sha256=",
            HmacSha256Hex(WEBHOOK_SECRET, GenuineId \o GenuineTs \o <<body>>),
            TRUE)

\* signature header values tried with a request that carries `body`
SigValues(body) ==
  { NoSigHeader,
    GenuineSig(body),
    SigString("sha256=", HmacSha256Hex(OtherKey, GenuineId \o GenuineTs \o <<body>>), TRUE),
    SigString("sha1=", HmacSha256Hex(WEBHOOK_SECRET, GenuineId \o GenuineTs \o <<body>>), TRUE),
    SigString("sha256=", <<"e-acute">>, FALSE) }

MessageTypes == {"webhook_callback_verification", "notification", "revocation", None}

\* a well-formed notification body
GoLiveBody == "{event:{id:u1,name:n1}}"

\* every combination of the three signature headers, on a notification
HeaderRequests ==
  { TwitchRequest(id, ts, sig, "notification", GoLiveBody) :
      id \in HdrValues, ts \in HdrValues, sig \in SigValues(GoLiveBody) }

\* every body under the two message types the handler acts on, and a go-live
\* body under the other types, as the provider delivers and signs them
BodyRequests ==
  { TwitchRequest(GenuineId, GenuineTs, GenuineSig(body), type, body) :
      type \in {"webhook_callback_verification", "notification"},
      body \in TwitchBodies }
  \cup { TwitchRequest(GenuineId, GenuineTs, GenuineSig(GoLiveBody), type, GoLiveBody) :
           type \in MessageTypes }

TwitchRequests == HeaderRequests \cup BodyRequests

YoutubeRequests ==
  { YoutubeRequest("GET", None, c) : c \in {None, "", "c1"} }
  \cup { YoutubeRequest("POST", body, None) : body \in YoutubeBodies }

HomeRequest == Request("/", "GET", NoHeader, NoHeader, NoSigHeader, None, None, None)

\* the registries streams.json may hold when the program starts: the
\* platform of each id that is a key (u2 is a Twitch id)
Registries ==
  { r \in UNION {[S -> {"twitch", "youtube"}] : S \in SUBSET Ids} :
      "u2" \in DOMAIN r => r["u2"] = "twitch" }

RecordOf(id, platform) ==
  IF id = "u1"
  THEN Subscription(platform, 1, 10, IF platform = "twitch" THEN "n1" ELSE "Chan1",
                    IF platform = "twitch" THEN "sub-u1" ELSE None, "hi")
  ELSE Subscription(platform, 1, 11, IF platform = "twitch" THEN "n2" ELSE "Chan2",
                    IF platform = "twitch" THEN "sub-u2" ELSE None, None)

\* ----------------------------------------------------------------- actions

\* the locals of a handler run: the request, the registry record it read and
\* what it has done so far
Locals(req, sub, res) == [req |-> req, sub |-> sub, res |-> res]

\* no handler has run yet
NoLocals == Locals(NoRequest, NoSub, Result(0, None, 0, 0, <<>>))

\* what a command run did: the command and its arguments, its outcome, the
\* registry key it settled on, the provider-side calls it made in order, and
\* the registry as it found it
Command(kind, platform, identifier, guild_id, outcome, target, calls, before) ==
  [kind |-> kind, platform |-> platform, identifier |-> identifier,
   guild_id |-> guild_id, outcome |-> outcome, target |-> target,
   calls |-> calls, before |-> before]

\* the EventSub subscription ids the Twitch records of `db` carry
LiveSubscriptions(db) ==
  { db[id].subscription_id : id \in {k \in DOMAIN db : db[k].platform = "twitch"} }

\* no command has run yet
NoCommand == Command(None, None, None, 0, None, None, <<>>, <<>>)

Init ==
  /\ \E r \in Registries : data = [id \in DOMAIN r |-> RecordOf(id, r[id])]
  /\ channels = (10 :> "text" @@ 11 :> "category")
  /\ tasks = <<>>
  /\ last = [req |-> NoRequest, status |-> 0, body |-> None, lookups |-> 0,
             enrich |-> 0, enr |-> None, sends |-> <<>>, deliveries |-> 0,
             dispatches |-> 0]
  /\ pc = "idle"
  /\ cur = NoLocals
  /\ sink = [scheduled |-> 0, succeeded |-> 0, failed |-> 0]
  /\ provider = LiveSubscriptions(data)
  /\ cmd = NoCommand

\* Handle that forgets the subscriptions when a lookup ends without a dispatch
Handle_pruning(req, res, enr) ==
  /\ ~(req = last.req /\ last.deliveries >= MaxDeliveries)
  /\ Len(tasks) + Len(res.sends) <= MaxTasks
  /\ tasks' = tasks \o res.sends
  /\ last' = [req |-> req, status |-> res.status, body |-> res.body,
              lookups |-> res.lookups, enrich |-> res.enrich,
              enr |-> IF res.enrich > 0 THEN enr ELSE None,
              sends |-> res.sends,
              deliveries |-> IF req = last.req THEN last.deliveries + 1 ELSE 1,
              dispatches |-> IF req = last.req
                             THEN last.dispatches + Len(res.sends)
                             ELSE Len(res.sends)]
  /\ data' = [k \in {d \in DOMAIN data : res.lookups = 0 \/ res.sends # <<>>}
                |-> data[k]]
  /\ UNCHANGED <<channels, pc, cur, sink, provider, cmd>>

\* the bookkeeping common to the three routes: the handler's tasks are
\* scheduled on the bot loop and the run is recorded in `last`
Handle(req, res, enr) ==
  /\ ~(req = last.req /\ last.deliveries >= MaxDeliveries)
  /\ Len(tasks) + Len(res.sends) <= MaxTasks
  /\ tasks' = tasks \o res.sends
  /\ last' = [req |-> req, status |-> res.status, body |-> res.body,
              lookups |-> res.lookups, enrich |-> res.enrich,
              enr |-> IF res.enrich > 0 THEN enr ELSE None,
              sends |-> res.sends,
              deliveries |-> IF req = last.req THEN last.deliveries + 1 ELSE 1,
              dispatches |-> IF req = last.req
                             THEN last.dispatches + Len(res.sends)
                             ELSE Len(res.sends)]
  /\ UNCHANGED <<data, channels, pc, cur, sink, provider, cmd>>

\* the outcome of the stream-details call is drawn only when the call is made
TwitchWebhook ==
  \E req \in TwitchRequests :
    \E enr \in IF twitch_webhook(req, data, channels, "error").enrich > 0
                THEN EnrichOutcomes ELSE {"error"} :
      Handle(req, twitch_webhook(req, data, channels, enr), enr)

YoutubeWebhook ==
  \E req \in YoutubeRequests :
    Handle(req, youtube_webhook(req, data, channels), None)

Home == Handle(HomeRequest, home, None)

\* a Discord channel is deleted: bot.get_channel no longer finds it
ChannelDeleted ==
  \E c \in DOMAIN channels :
    /\ channels[c] # None
    /\ channels' = [channels EXCEPT ![c] = None]
    /\ UNCHANGED <<data, tasks, last, pc, cur, sink, provider, cmd>>

\* the bot loop runs the oldest scheduled send
RunTask ==
  /\ tasks # <<>>
  /\ tasks' = Tail(tasks)
  /\ UNCHANGED <<data, channels, last, pc, cur, sink, provider, cmd>>

Next ==
  \/ TwitchWebhook
  \/ YoutubeWebhook
  \/ Home
  \/ ChannelDeleted
  \/ RunTask

Spec == Init /\ [][Next]_vars

\* ------------------------------------------------- the handlers, step by step

\* the notifications the step-wise handlers are run on
StepRequests ==
  { r \in BodyRequests : r.type = "notification" }
  \cup { YoutubeRequest("POST", body, None) : body \in YoutubeBodies }

\* the handler reaches requests.get(stream_details_url) (line 538)
CallsStreamDetails(req) ==
  /\ req.route = "/webhooks/twitch"
  /\ twitch_webhook(req, data, channels, "error").enrich > 0

\* the HTTP thread takes a request and runs the handler up to its return
\* statement or, for a Twitch notification with a subscription, up to the
\* stream-details call, in which it blocks
Begin ==
  \E req \in StepRequests :
    /\ pc = "idle"
    /\ Len(tasks) < MaxTasks
    /\ sink.scheduled < MaxSends
    /\ IF CallsStreamDetails(req)
       THEN /\ cur' = Locals(req,
                       get_subscription(data, get_json(req.data).broadcaster_user_id),
                       Result(0, None, 1, 1, <<>>))
            /\ pc' = "enrich"
            /\ UNCHANGED <<tasks, sink>>
       ELSE LET res == IF req.route = "/webhooks/twitch"
                       THEN twitch_webhook(req, data, channels, "error")
                       ELSE youtube_webhook(req, data, channels)
            IN  /\ cur' = Locals(req, NoSub, res)
                /\ pc' = "respond"
                /\ tasks' = tasks \o res.sends
                /\ sink' = [sink EXCEPT !.scheduled = @ + Len(res.sends)]
    /\ UNCHANGED <<data, channels, last, provider, cmd>>

\* requests.get returns or raises: the handler resolves the channel, schedules
\* the send and reaches its return statement
StreamDetailsAnswer ==
  \E enr \in EnrichOutcomes :
    LET event == get_json(cur.req.data)
        res == twitch_dispatch(cur.sub, event, event.broadcaster_user_id,
                               channels, enr)
    IN  /\ pc = "enrich"
        /\ cur' = [cur EXCEPT !.res = res]
        /\ pc' = "respond"
        /\ tasks' = tasks \o res.sends
        /\ sink' = [sink EXCEPT !.scheduled = @ + Len(res.sends)]
        /\ UNCHANGED <<data, channels, last, provider, cmd>>

\* the handler returns: Flask emits the response held in cur.res
Respond ==
  /\ pc = "respond"
  /\ pc' = "idle"
  /\ UNCHANGED <<data, channels, tasks, last, cur, sink, provider, cmd>>

\* SendTask that leaves a failed send in the queue, to be tried again
SendTask_retrying ==
  \E ok \in BOOLEAN :
    /\ tasks # <<>>
    /\ tasks' = IF ok THEN Tail(tasks) ELSE tasks
    /\ sink' = IF ok THEN [sink EXCEPT !.succeeded = @ + 1]
                     ELSE [sink EXCEPT !.failed = @ + 1]
    /\ sink.failed < MaxSends
    /\ UNCHANGED <<data, channels, last, pc, cur, provider, cmd>>

\* the bot loop runs the oldest scheduled channel.send, which succeeds or
\* raises; the task is finished either way
SendTask ==
  \E ok \in BOOLEAN :
    /\ tasks # <<>>
    /\ tasks' = Tail(tasks)
    /\ sink' = IF ok THEN [sink EXCEPT !.succeeded = @ + 1]
                     ELSE [sink EXCEPT !.failed = @ + 1]
    /\ UNCHANGED <<data, channels, last, pc, cur, provider, cmd>>

\* the steps the HTTP thread can take by itself
HandlerStep == Begin \/ Respond

NextSteps ==
  \/ Begin
  \/ StreamDetailsAnswer
  \/ Respond
  \/ SendTask
  \/ ChannelDeleted

SpecSteps == Init /\ [][NextSteps]_vars

\* ---------------------------------------------------------- slash commands

\* guilds the commands are invoked in
CmdGuilds == {1, 2}

\* identifiers a user types: Twitch login names in either case, ids, and a
\* name that nothing answers to
CmdIdentifiers == {"n1", "N1", "n2", "u1", "u2", "zz"}

\* str.lower()
Lower(str) == IF str = "N1" THEN "n1" ELSE str

\* a call of a provider API and whether it succeeded
Call(name, ok) == [call |-> name, ok |-> ok]

\* get_twitch_user_id: the id Twitch knows the login by, None when it knows
\* none or when the token or the request fails (`ok` is FALSE)
get_twitch_user_id(username, ok) ==
  IF ~ok THEN None
  ELSE CASE Lower(username) = "n1" -> "u1"
         [] Lower(username) = "n2" -> "u2"
         [] OTHER                  -> None

\* get_youtube_channel_info: the snippet title of the channel, None when
\* YouTube knows no such channel or the request fails
get_youtube_channel_info(channel_id, ok) ==
  IF ~ok THEN None
  ELSE CASE channel_id = "u1" -> "Chan1"
         [] channel_id = "u2" -> "Chan2"
         [] OTHER             -> None

\* the id Twitch gives the stream.online subscription of a broadcaster
SubIdOf(user_id) == IF user_id = "u1" THEN "sub-u1" ELSE "sub-u2"

\* create_twitch_subscription: the new subscription id, None when the
\* request fails or Twitch refuses it (409 for a subscription that is live)
create_twitch_subscription(prov, user_id, ok) ==
  IF ok /\ SubIdOf(user_id) \notin prov THEN SubIdOf(user_id) ELSE None

\* create_youtube_subscription: whether the hub answered 200, 202 or 204
create_youtube_subscription(ok) == IF ok THEN "True" ELSE "False"

\* subscription_exists that never finds a record
subscription_exists_never(db, streamer_id) == FALSE

\* StreamDatabase.subscription_exists
subscription_exists(db, streamer_id) == streamer_id \in DOMAIN db

\* StreamDatabase.add_subscription: self.data[streamer_id] = {...}
add_subscription(db, streamer_id, record) ==
  [k \in DOMAIN db \cup {streamer_id} |->
     IF k = streamer_id THEN record ELSE db[k]]

\* StreamDatabase.remove_subscription: self.data.pop(streamer_id, None)
remove_subscription(db, streamer_id) ==
  [k \in DOMAIN db \ {streamer_id} |-> db[k]]

\* get_subscriptions_by_guild that returns the records of every guild
get_subscriptions_of_all_guilds(db, guild_id) == db

\* StreamDatabase.get_subscriptions_by_guild
get_subscriptions_by_guild(db, guild_id) ==
  [k \in {d \in DOMAIN db : db[d].guild_id = guild_id} |-> db[k]]

\* the tests `if sub_id:` and `if create_youtube_subscription(...)` without
\* the test
created_unchecked(result) == TRUE

\* the tests `if sub_id:` (a subscription id or None) and
\* `if create_youtube_subscription(...)` (a bool): the value is truthy
created(result) == result \notin {None, "False", ""}

\* what a command leaves behind: the registry, the live EventSub
\* subscriptions, and its outcome, key and provider-side calls
Done(db, prov, outcome, target, calls) ==
  [data |-> db, provider |-> prov, outcome |-> outcome, target |-> target,
   calls |-> calls]

\* add_command, platform == 'twitch'
add_twitch(db, prov, identifier, guild_id, channel_id, custom_message, found, ok) ==
  LET user_id == get_twitch_user_id(identifier, found)
      sub_id == create_twitch_subscription(prov, user_id, ok)
  IN  IF user_id = None
      THEN Done(db, prov, "notfound", None, << Call("lookup", FALSE) >>)
      ELSE IF subscription_exists(db, user_id)
      THEN Done(db, prov, "exists", user_id, << Call("lookup", TRUE) >>)
      ELSE IF created(sub_id)
      THEN Done(add_subscription(db, user_id,
                  Subscription("twitch", guild_id, channel_id,
                               Lower(identifier), sub_id, custom_message)),
                prov \cup {sub_id}, "added", user_id,
                << Call("lookup", TRUE), Call("create", TRUE) >>)
      ELSE Done(db, prov, "failed", user_id,
                << Call("lookup", TRUE), Call("create", FALSE) >>)

\* add_command, platform == 'youtube'
add_youtube(db, prov, identifier, guild_id, channel_id, custom_message, found, ok) ==
  LET title == get_youtube_channel_info(identifier, found)
  IN  IF title = None
      THEN Done(db, prov, "notfound", None, << Call("lookup", FALSE) >>)
      ELSE IF subscription_exists(db, identifier)
      THEN Done(db, prov, "exists", identifier, << Call("lookup", TRUE) >>)
      ELSE IF created(create_youtube_subscription(ok))
      THEN Done(add_subscription(db, identifier,
                  Subscription("youtube", guild_id, channel_id, title, None,
                               custom_message)),
                prov, "added", identifier,
                << Call("lookup", TRUE), Call("create", TRUE) >>)
      ELSE Done(db, prov, "failed", identifier,
                << Call("lookup", TRUE), Call("create", FALSE) >>)

add_command(db, prov, platform, identifier, guild_id, channel_id, custom_message, found, ok) ==
  IF platform = "twitch"
  THEN add_twitch(db, prov, identifier, guild_id, channel_id, custom_message,
                  found, ok)
  ELSE add_youtube(db, prov, identifier, guild_id, channel_id, custom_message,
                   found, ok)

\* the key remove_command settles on: for Twitch the record of the guild with
\* that platform and login name, for YouTube the identifier when it is a key
\* of the guild's records
remove_target(guild_subscriptions, platform, identifier) ==
  LET named == { k \in DOMAIN guild_subscriptions :
                   /\ guild_subscriptions[k].platform = "twitch"
                   /\ Lower(guild_subscriptions[k].name) = Lower(identifier) }
  IN  IF platform = "twitch"
      THEN IF named # {} THEN CHOOSE k \in named : TRUE ELSE None
      ELSE IF identifier \in DOMAIN guild_subscriptions THEN identifier
           ELSE None

\* remove_command; `ok` is whether delete_twitch_subscription succeeds
remove_command(db, prov, platform, identifier, guild_id, ok) ==
  LET guild_subscriptions == get_subscriptions_by_guild(db, guild_id)
      target_id == remove_target(guild_subscriptions, platform, identifier)
      subscription_data == get_subscription(db, target_id)
      deletes == platform = "twitch" /\ subscription_data.subscription_id # None
  IN  IF target_id = None
      THEN Done(db, prov, "nomatch", None, <<>>)
      ELSE Done(remove_subscription(db, target_id),
                IF deletes /\ ok
                THEN prov \ {subscription_data.subscription_id} ELSE prov,
                "removed", target_id,
                IF deletes THEN << Call("delete", ok) >> ELSE <<>>)

\* a command ran: the registry and the provider are as it left them
Ran(kind, platform, identifier, guild_id, done) ==
  /\ data' = done.data
  /\ provider' = done.provider
  /\ cmd' = Command(kind, platform, identifier, guild_id, done.outcome,
                    done.target, done.calls, data)
  /\ UNCHANGED <<channels, tasks, last, pc, cur, sink>>

\* /add, with the channel the command is invoked in as destination
AddCommand ==
  \E platform \in {"twitch", "youtube"}, identifier \in CmdIdentifiers,
     guild_id \in CmdGuilds, found \in BOOLEAN, ok \in BOOLEAN :
    Ran("add", platform, identifier, guild_id,
        add_command(data, provider, platform, identifier, guild_id, 10, None,
                    found, ok))

\* /remove with an identifier of `identifiers` in a guild of `guilds`
Remove(identifiers, guilds) ==
  \E platform \in {"twitch", "youtube"}, identifier \in identifiers,
     guild_id \in guilds, ok \in BOOLEAN :
    Ran("remove", platform, identifier, guild_id,
        remove_command(data, provider, platform, identifier, guild_id, ok))

\* /remove
RemoveCommand == Remove(CmdIdentifiers, CmdGuilds)

\* /remove of the login n1 (the subscription of u1 on Twitch) in its guild
RemoveDuringHandler == Remove({"n1"}, {1})

\* on_ready (at start-up and after every reconnect):
\* delete_all_twitch_subscriptions deletes the subscriptions Twitch lists,
\* all of them, or fewer when a request fails
OnReady ==
  \E remaining \in SUBSET provider :
    Ran("on_ready", None, None, 0,
        Done(data, remaining, "ready", None,
             << Call("delete_all", remaining = {}) >>))

NextCommands == AddCommand \/ RemoveCommand \/ OnReady

SpecCommands == Init /\ [][NextCommands]_vars

\* /remove on the bot loop beside the handler steps of the HTTP thread
NextRace == NextSteps \/ RemoveDuringHandler

SpecRace == Init /\ [][NextRace]_vars

\* ------------------------------------------------------------------ claims

\* the request was sent to POST /webhooks/twitch
IsTwitch(req) == req.route = "/webhooks/twitch"

\* the request is a POST to /webhooks/youtube
IsYoutubePost(req) == req.route = "/webhooks/youtube" /\ req.method = "POST"

\* the signature header equals 'sha256=' + hex(HMAC-SHA256(secret, id || timestamp || body))
SignatureCorrect(req) == req.sig = expected_signature(req)

\* a header of the three is missing
HeaderMissing(req) ==
  req.id = NoHeader \/ req.ts = NoHeader \/ req.sig = NoSigHeader

\* the body is JSON with an event object that has both required fields
WellFormedEvent(req) ==
  LET j == get_json(req.data)
  IN  /\ j.kind = "object"
      /\ j.event = "object"
      /\ j.broadcaster_user_id # None
      /\ j.broadcaster_user_name # None

\* a correctly signed notification
SignedNotification(req) ==
  IsTwitch(req) /\ SignatureCorrect(req) /\ req.type = "notification"

\* the record of `id` is a record of `platform` whose channel can be sent to
Deliverable(db, chans, id, platform) ==
  /\ id \in DOMAIN db
  /\ db[id].platform = platform
  /\ can_send(get_channel(chans, db[id].channel_id))

\* C1: a POST to /webhooks/twitch whose signature header does not equal the
\* expected signature is answered 403 and makes no registry lookup, no
\* stream-details call and no dispatch.
C1_MismatchRejected ==
  (IsTwitch(last.req) /\ ~SignatureCorrect(last.req))
    => /\ last.status = 403
       /\ last.lookups = 0
       /\ last.enrich = 0
       /\ last.sends = <<>>

\* C2: a POST to /webhooks/twitch is answered 403 when the signature
\* verification failed and 200 otherwise; no other status is returned.
C2_OnlyOkOrForbidden ==
  IsTwitch(last.req)
    => last.status = IF SignatureCorrect(last.req) THEN 200 ELSE 403

\* C3: the same signed notification delivered twice, for a broadcaster with a
\* matching subscription and a resolvable channel, is dispatched exactly once
\* over the two requests.
C3_ReplayDispatchedOnce ==
  ( /\ SignedNotification(last.req)
    /\ WellFormedEvent(last.req)
    /\ Deliverable(data, channels,
                   get_json(last.req.data).broadcaster_user_id, "twitch")
    /\ last.deliveries = 2 )
    => last.dispatches = 1

\* C4: a request carrying the correctly computed signature is not answered
\* 403, and a request carrying any other signature value is answered 403.
C4_SignatureDecides ==
  IsTwitch(last.req)
    => (SignatureCorrect(last.req) <=> last.status # 403)

\* C5: a POST to /webhooks/twitch that lacks the Message-Id, the
\* Message-Timestamp or the Message-Signature header is answered 403, whatever
\* the headers that are present hold (stated here for the requests whose
\* signature header, when present, is ASCII: verification does not raise).
C5_MissingHeaderRejected ==
  (IsTwitch(last.req) /\ HeaderMissing(last.req) /\ last.req.sig.ascii)
    => last.status = 403

\* C6: a correctly signed notification whose body is malformed or incomplete
\* is answered 200 and causes no dispatch.
C6_MalformedAccepted ==
  (SignedNotification(last.req) /\ ~WellFormedEvent(last.req))
    => (last.status = 200 /\ last.sends = <<>>)

\* a correctly signed verification request whose JSON body has a challenge
IsChallenge(req) ==
  /\ IsTwitch(req)
  /\ SignatureCorrect(req)
  /\ req.type = "webhook_callback_verification"
  /\ get_json(req.data).kind = "object"
  /\ get_json(req.data).challenge # None

\* C7: a correctly signed verification request with a JSON body containing
\* challenge = c is answered 200 with body exactly c; it makes no registry
\* lookup, no stream-details call and no dispatch, and changes no stored state.
C7_ChallengeEchoed ==
  [][ (last' # last /\ IsChallenge(last'.req))
        => /\ last'.status = 200
           /\ last'.body = get_json(last'.req.data).challenge
           /\ last'.lookups = 0
           /\ last'.enrich = 0
           /\ last'.sends = <<>>
           /\ data' = data
           /\ channels' = channels
           /\ tasks' = tasks ]_vars

\* C7 witness: the challenge abc123 was echoed while a subscription exists
C7_Witness ==
  /\ IsChallenge(last.req)
  /\ last.status = 200
  /\ last.body = "abc123"
  /\ DOMAIN data # {}

\* C8: any number of deliveries of one YouTube feed entry, for a subscribed
\* channel with a resolvable destination, causes at most one dispatch.
C8_RedeliveryDispatchedOnce ==
  IsYoutubePost(last.req) => last.dispatches <= 1

\* C9: a correctly signed, well-formed notification whose broadcaster_user_id
\* is no key of the registry causes no dispatch and is answered 200.
C9_UnknownBroadcasterIgnored ==
  [][ ( /\ last' # last
        /\ SignedNotification(last'.req)
        /\ WellFormedEvent(last'.req)
        /\ get_json(last'.req.data).broadcaster_user_id \notin DOMAIN data )
        => /\ last'.status = 200
           /\ last'.sends = <<>>
           /\ tasks' = tasks ]_vars

\* C9 witness: a notification for u2 was handled while only u1 is subscribed
\* (on Twitch, with a channel that can be sent to)
C9_Witness ==
  /\ SignedNotification(last.req)
  /\ WellFormedEvent(last.req)
  /\ get_json(last.req.data).broadcaster_user_id = "u2"
  /\ "u2" \notin DOMAIN data
  /\ Deliverable(data, channels, "u1", "twitch")
  /\ last.status = 200
  /\ last.lookups = 1

\* the feed has an entry that lacks yt:videoId or yt:channelId
EntryIncomplete(req) ==
  LET x == xmltodict_parse(req.data)
  IN  /\ IsYoutubePost(req)
      /\ x.kind = "feed"
      /\ x.entry = "object"
      /\ (x.videoId = None \/ x.channelId = None)

\* C10: a POST to /webhooks/youtube whose feed entry lacks yt:videoId or
\* yt:channelId is answered 200 and causes no registry lookup and no dispatch.
C10_IncompleteEntryIgnored ==
  [][ (last' # last /\ EntryIncomplete(last'.req))
        => /\ last'.status = 200
           /\ last'.lookups = 0
           /\ last'.sends = <<>>
           /\ tasks' = tasks ]_vars

\* C10 witness: an entry with a channel id but no video id was handled while
\* that channel is subscribed and its destination can be sent to
C10_Witness ==
  /\ EntryIncomplete(last.req)
  /\ xmltodict_parse(last.req.data).channelId = "u1"
  /\ Deliverable(data, channels, "u1", "youtube")
  /\ last.status = 200

\* C11: every POST to /webhooks/youtube is answered 200, whatever the body,
\* the registry lookup, the channel resolution or the dispatch does.
C11_YoutubePostAlwaysOk ==
  IsYoutubePost(last.req) => last.status = 200

\* C11 witness: a feed with several entries, on which entry.get raises, was
\* answered 200 while the registry holds a record
C11_Witness ==
  /\ IsYoutubePost(last.req)
  /\ xmltodict_parse(last.req.data).entry = "list"
  /\ last.status = 200
  /\ DOMAIN data # {}

\* C12: a GET to /webhooks/youtube is answered 200 with body exactly the
\* value of hub.challenge when the parameter is present (the empty string
\* included) and with OK when it is absent; it makes no registry lookup and
\* no dispatch.
C12_HubChallengeEchoed ==
  (last.req.route = "/webhooks/youtube" /\ last.req.method = "GET")
    => /\ last.status = 200
       /\ last.body = IF last.req.challenge # None
                      THEN last.req.challenge ELSE "OK"
       /\ last.lookups = 0
       /\ last.sends = <<>>

\* the stream-details call of the handled request did not deliver a complete
\* stream record: it raised or was answered non-2xx ("error"), was answered
\* with an empty data list ("offline") or with a record without a title
\* ("untitled")
StreamDetailsFailed ==
  /\ last.enrich = 1
  /\ last.enr \in {"error", "offline", "untitled"}

\* C13: when the stream-details call of an accepted Twitch notification fails
\* in any way (exception, non-2xx, malformed or empty response) the request is
\* answered 200 and what it dispatches is rendered with exactly the title
\* "Stream is Live!" and the category "No Category".
C13_DefaultsOnFailure ==
  ( /\ SignedNotification(last.req)
    /\ WellFormedEvent(last.req)
    /\ StreamDetailsFailed )
    => /\ last.status = 200
       /\ \A i \in DOMAIN last.sends :
            /\ last.sends[i].headline = "Stream is Live!"
            /\ last.sends[i].game = "No Category"

\* C14: the handler of an accepted Twitch notification never depends on the
\* stream-details API to go on: while it waits for the answer, a step of its
\* own (the expiry of a timeout) is enabled.
C14_EnrichmentWaitBounded ==
  pc = "enrich" => ENABLED HandlerStep

\* the request carries a live event: a correctly signed Twitch notification
\* with both event fields, or a YouTube entry with both identifiers
ValidEvent(req) ==
  \/ SignedNotification(req) /\ WellFormedEvent(req)
  \/ LET x == xmltodict_parse(req.data)
     IN  /\ IsYoutubePost(req)
         /\ x.kind = "feed"
         /\ x.entry = "object"
         /\ x.videoId # None
         /\ x.channelId # None

\* the external id the event of the request carries
EventId(req) ==
  IF IsTwitch(req) THEN get_json(req.data).broadcaster_user_id
                   ELSE xmltodict_parse(req.data).channelId

\* the platform of the route of the request
PlatformOf(req) == IF IsTwitch(req) THEN "twitch" ELSE "youtube"

\* C15: a live event (of either handler) whose subscription names a
\* destination channel that bot.get_channel does not find is dropped: nothing
\* is scheduled and the request is answered 200.
C15_UnresolvedChannelDropped ==
  [][ ( /\ last' # last
        /\ ValidEvent(last'.req)
        /\ EventId(last'.req) \in DOMAIN data
        /\ data[EventId(last'.req)].platform = PlatformOf(last'.req)
        /\ get_channel(channels, data[EventId(last'.req)].channel_id) = None )
        => /\ last'.status = 200
           /\ last'.sends = <<>>
           /\ tasks' = tasks ]_vars

\* C15 witness: a Twitch notification for u1 was handled after the channel of
\* u1's Twitch subscription had been deleted (before the deletion it is a text
\* channel, and the run would have scheduled a send)
C15_Witness ==
  /\ SignedNotification(last.req)
  /\ WellFormedEvent(last.req)
  /\ EventId(last.req) = "u1"
  /\ "u1" \in DOMAIN data
  /\ data["u1"].platform = "twitch"
  /\ get_channel(channels, data["u1"].channel_id) = None
  /\ last.lookups = 1
  /\ last.sends = <<>>
  /\ last.status = 200

\* the number of sends the bot loop has attempted
Attempts(snk) == snk.succeeded + snk.failed

\* C16: dispatch is fire-and-forget.  A handler that has scheduled its send
\* answers 200 and can emit the answer at once, whatever has become of the
\* send; the attempt of a send, successful or not, leaves the handler and its
\* response alone and ends the task; every scheduled send is attempted at most
\* once, and one request schedules at most one.
C16_FireAndForget ==
  [][ /\ Attempts(sink') + Len(tasks') = sink'.scheduled
      /\ Len(cur'.res.sends) <= 1
      /\ (pc' = "respond" /\ cur'.res.sends # <<>>) => cur'.res.status = 200
      /\ pc = "respond" => ENABLED Respond
      /\ Attempts(sink') # Attempts(sink)
           => /\ pc' = pc
              /\ cur' = cur
              /\ Attempts(sink') = Attempts(sink) + 1
              /\ tasks' = Tail(tasks) ]_vars

\* C16 witness: the send a request scheduled has failed while the handler has
\* not emitted its 200 yet, and nothing is left to be tried again
C16_Witness ==
  /\ pc = "respond"
  /\ cur.res.sends # <<>>
  /\ cur.res.status = 200
  /\ sink.failed = 1
  /\ sink.scheduled = 1
  /\ tasks = <<>>

\* C17: no webhook request (GET /, POST /webhooks/twitch, GET or POST
\* /webhooks/youtube) creates, changes or deletes a subscription: the
\* registry after the request is the registry before it.
C17_WebhooksLeaveRegistry ==
  [][ last' # last => data' = data ]_vars

\* C17 witness: a live event for a subscribed broadcaster was handled, its
\* record looked up and nothing dispatched, and the record is still there
C17_Witness ==
  /\ ValidEvent(last.req)
  /\ EventId(last.req) \in DOMAIN data
  /\ data[EventId(last.req)].platform = PlatformOf(last.req)
  /\ last.lookups = 1
  /\ last.sends = <<>>
  /\ last.status = 200

\* C18: a live event whose external id maps to a subscription of the same
\* platform with a destination channel that is found and can be sent to
\* schedules exactly one send, addressed to that channel, and is answered 200.
\* (No webhook changes the registry and channels are only ever deleted, so a
\* record that is deliverable now was deliverable when the request was
\* handled, and the state right after the handling is among those checked.)
C18_AcceptedEventSentOnce ==
  ( /\ ValidEvent(last.req)
    /\ Deliverable(data, channels, EventId(last.req), PlatformOf(last.req)) )
    => /\ last.status = 200
       /\ Len(last.sends) = 1
       /\ last.sends[1].channel = data[EventId(last.req)].channel_id
       /\ last.dispatches = last.deliveries

\* C18 witness: a Twitch notification for u1 was handled and its one send, to
\* the channel of u1's Twitch subscription, is scheduled
C18_Witness ==
  /\ SignedNotification(last.req)
  /\ WellFormedEvent(last.req)
  /\ EventId(last.req) = "u1"
  /\ "u1" \in DOMAIN data
  /\ data["u1"].platform = "twitch"
  /\ Len(last.sends) = 1
  /\ last.sends[1].channel = data["u1"].channel_id
  /\ tasks = last.sends
  /\ last.status = 200

\* C19: a request makes at most one stream-details call, and only a correctly
\* signed Twitch notification whose broadcaster_user_id is the key of a Twitch
\* subscription makes one: rejected, challenge, unmatched and YouTube requests
\* make none.
C19_StreamDetailsOnlyWhenMatched ==
  [][ last' # last
        => /\ last'.enrich <= 1
           /\ last'.enrich = 1
                => /\ SignedNotification(last'.req)
                   /\ EventId(last'.req) \in DOMAIN data
                   /\ data[EventId(last'.req)].platform = "twitch" ]_vars

\* C19 witness: a notification for u1 made the call, with u1 subscribed on
\* Twitch
C19_Witness ==
  /\ SignedNotification(last.req)
  /\ EventId(last.req) = "u1"
  /\ "u1" \in DOMAIN data
  /\ data["u1"].platform = "twitch"
  /\ last.enrich = 1

\* C20: the lookup is platform-scoped: a live event whose external id is the
\* key of a subscription of the other platform causes no stream-details call
\* and no dispatch and is answered 200.
C20_OtherPlatformIgnored ==
  [][ ( /\ last' # last
        /\ ValidEvent(last'.req)
        /\ EventId(last'.req) \in DOMAIN data
        /\ data[EventId(last'.req)].platform # PlatformOf(last'.req) )
        => /\ last'.status = 200
           /\ last'.enrich = 0
           /\ last'.sends = <<>>
           /\ tasks' = tasks ]_vars

\* C20 witness: a Twitch notification for u1 was handled while u1 is the key
\* of a YouTube subscription whose channel can be sent to
C20_Witness ==
  /\ SignedNotification(last.req)
  /\ WellFormedEvent(last.req)
  /\ EventId(last.req) = "u1"
  /\ Deliverable(data, channels, "u1", "youtube")
  /\ last.lookups = 1
  /\ last.sends = <<>>
  /\ last.status = 200

\* the command that ran in this step was `kind`
CommandRan(kind) == cmd' # cmd /\ cmd'.kind = kind

\* the provider-side calls of `c` include `call`
Made(c, call) == \E i \in DOMAIN c.calls : c.calls[i] = call

\* C21: /add never overwrites a record: every record of the registry is
\* still there, unaltered, after an /add, and an /add whose resolved id is a
\* key of the registry (for either platform, in any guild) is refused, makes
\* no provider-side creation and leaves the registry unchanged.
C21_AddNeverOverwrites ==
  [][ CommandRan("add")
        => /\ \A k \in DOMAIN data : k \in DOMAIN data' /\ data'[k] = data[k]
           /\ cmd'.target \in DOMAIN data
                => /\ cmd'.outcome = "exists"
                   /\ \A ok \in BOOLEAN : ~Made(cmd', Call("create", ok))
                   /\ data' = data
                   /\ provider' = provider ]_vars

\* C21 witness: an /add for YouTube in one guild was refused because its id
\* is the key of a Twitch record of another guild
C21_Witness ==
  /\ cmd.kind = "add"
  /\ cmd.outcome = "exists"
  /\ cmd.platform = "youtube"
  /\ cmd.target \in DOMAIN data
  /\ data[cmd.target].platform = "twitch"
  /\ data[cmd.target].guild_id # cmd.guild_id
  /\ data = cmd.before

\* C22: /add inserts a record only after the provider-side subscription was
\* created; when the lookup or the creation fails the registry is unchanged;
\* every Twitch record it inserts carries the non-empty id of the
\* subscription created.
C22_AddOnlyAfterCreation ==
  [][ CommandRan("add")
        => /\ data' # data
                => /\ cmd'.outcome = "added"
                   /\ cmd'.calls[Len(cmd'.calls)] = Call("create", TRUE)
           /\ (Made(cmd', Call("lookup", FALSE)) \/ Made(cmd', Call("create", FALSE)))
                => data' = data
           /\ \A k \in DOMAIN data' \ DOMAIN data :
                data'[k].platform = "twitch"
                  => /\ data'[k].subscription_id \notin {None, ""}
                     /\ data'[k].subscription_id \in provider' ]_vars

\* C22 witness: an /add for Twitch found the user, failed to create the
\* subscription and inserted nothing
C22_Witness ==
  /\ cmd.kind = "add"
  /\ cmd.platform = "twitch"
  /\ cmd.outcome = "failed"
  /\ Made(cmd, Call("create", FALSE))
  /\ cmd.target \notin DOMAIN data
  /\ data = cmd.before

\* C23: in every state reached through on_ready, /add and /remove each
\* Twitch record of the registry has a live EventSub subscription whose id is
\* the record's subscription_id.
C23_TwitchRecordsLive ==
  \A id \in DOMAIN data :
    data[id].platform = "twitch" => data[id].subscription_id \in provider

\* the record `record` under key `key` answers to the identifier of /remove
Answers(key, record, identifier) ==
  key = identifier \/ Lower(record.name) = Lower(identifier)

\* C24: /remove with platform P removes only records of platform P, and for
\* every Twitch record it removes it has attempted the deletion of the
\* EventSub subscription.
C24_RemovePlatformScoped ==
  [][ CommandRan("remove")
        => \A k \in DOMAIN data \ DOMAIN data' :
             /\ data[k].platform = cmd'.platform
             /\ data[k].platform = "twitch"
                  => \E ok \in BOOLEAN : Made(cmd', Call("delete", ok)) ]_vars

\* C25: /remove in guild G leaves every record of another guild in the
\* registry, unaltered; when no record of G answers to the identifier, or the
\* command finds no match, the registry is unchanged and no provider-side
\* call is made.
C25_RemoveGuildScoped ==
  [][ CommandRan("remove")
        => /\ \A k \in DOMAIN data :
                data[k].guild_id # cmd'.guild_id
                  => k \in DOMAIN data' /\ data'[k] = data[k]
           /\ ( \/ cmd'.outcome = "nomatch"
                \/ ~\E k \in DOMAIN data :
                      /\ data[k].guild_id = cmd'.guild_id
                      /\ Answers(k, data[k], cmd'.identifier) )
                => /\ data' = data
                   /\ provider' = provider
                   /\ cmd'.calls = <<>> ]_vars

\* C25 witness: a /remove found no match in its guild while a record of its
\* platform in another guild answers to the identifier, and that record is
\* still there
C25_Witness ==
  /\ cmd.kind = "remove"
  /\ cmd.outcome = "nomatch"
  /\ \E k \in DOMAIN data :
       /\ data[k].guild_id # cmd.guild_id
       /\ data[k].platform = cmd.platform
       /\ Answers(k, data[k], cmd.identifier)
  /\ data = cmd.before

\* C26: under every interleaving of a webhook handler with /remove, a send
\* is scheduled only for a subscription that is in the registry: none is
\* scheduled after /remove has removed the record.
C26_NoSendAfterRemove ==
  [][ Len(tasks') > Len(tasks) => EventId(cur'.req) \in DOMAIN data ]_vars

====
